---- MODULE Spec2Model ----
(***************************************************************************)
(* Cart store and order assembly of the storefront.                        *)
(*                                                                         *)
(* Money is held in 1/100000 of the currency unit, so that a price with   *)
(* sub-cent digits, a line total (a multiple of a cent) and a tax amount   *)
(* (subtotal times a rate) are all integers.  The prices the model draws   *)
(* are dyadic (1.125, 2.5), so the floating-point products price times     *)
(* quantity of the code are exact and round as the integers here do; a     *)
(* tax amount is the exact product, which the code carries to the          *)
(* precision of a double.                                                  *)
(***************************************************************************)
EXTENDS Integers, Sequences, FiniteSets, TLC

\* ------------------------------------------------------------------ bounds
MaxQty == 3
MaxIds == 2
MaxAddresses == 1
MaxOrders == 1

\* ------------------------------------------------------------- input sets
Undefined == "undefined"
Cent == 1000
ProductIds == {"", "p1", "p2"}
ItemIds == {Undefined, "v1"}
TitleOf(productId) == IF productId = "p1" THEN "Ring" ELSE "Chain"
PriceOf(productId) == IF productId = "p1" THEN 112500 ELSE 250000
Prices == {-100000, 112500, 250000}
Quantities == -1 .. 2
\* What a caller may hand to addItem: the well-formed items over three
\* (productId, itemId) pairs, and one item of each pair with one field
\* spoiled the way the validation of addItem tests it.
ValidItems ==
  {n \in [productId : ProductIds \ {""}, itemId : ItemIds,
          title : {"Ring", "Chain"}, price : Prices, quantity : Quantities] :
     /\ n.title = TitleOf(n.productId)
     /\ ~(n.productId = "p2" /\ n.itemId = "v1")
     /\ n.price >= 0
     /\ n.quantity >= 1
     /\ \/ n.price = PriceOf(n.productId)
        \/ n.productId = "p1" /\ n.itemId = Undefined}
SpoiledItems ==
  LET base == {n \in ValidItems : n.price = 112500 /\ n.quantity = 1} IN
  {[n EXCEPT !.productId = ""] : n \in base}
    \cup {[n EXCEPT !.title = ""] : n \in base}
    \cup {[n EXCEPT !.price = -100000] : n \in base}
    \cup {[n EXCEPT !.quantity = q] : n \in base, q \in {-1, 0}}
NewItems == ValidItems \cup SpoiledItems
LineIds == 1 .. MaxIds

VARIABLES
  items,       \* CartProvider state: the cart lines, in insertion order
  taxRate,     \* CartProvider state: the tax rate, in 1/1000
  isLoading,   \* CartProvider state: TRUE until loadCart has finished
  storage,     \* AsyncStorage value under CART_STORAGE_KEY (Null: none)
  loadRead,    \* loadCart: the values its two getItem calls returned
               \* (NotRead before)
  nextId,      \* generateId: the next unused local line id
  lastOp       \* the last cart operation called, its arguments and the
               \* Alert it raised ("none": none)

VARIABLES
  taxRateStorage,  \* AsyncStorage value under TAX_RATE_STORAGE_KEY
  queue,           \* the setItems updaters called since the last render
  pending,         \* the storage calls on the cart key that are in flight,
                   \* in the order they were issued
  saveLog          \* the last storage failure reported ("none": none)

VARIABLES
  addresses,        \* document store: the user's address records, oldest first
  selectedAddress,  \* CheckoutScreen state: the address chosen (Null: none)
  checkoutLoading,  \* CheckoutScreen state: isLoading
  po,               \* handlePlaceOrder: where the call in flight stands
  checkoutAlert,    \* the Alert the last handlePlaceOrder call raised
  db,               \* document store: orders, orderitems and their links
  nextOrder,        \* id(): an order id no order in the store has
  issued            \* per order id handed to db.transact and not rejected:
                    \* what handlePlaceOrder was called with

effectVars == <<taxRateStorage, queue, pending, saveLog>>
cartVars ==
  <<items, taxRate, isLoading, storage, loadRead, nextId, lastOp, effectVars>>
VARIABLES
  inFlight,       \* the service calls in flight, each at one of its awaits
  customers,      \* document store: the customers collection
  favorites,      \* document store: the favorites collection
  favoritesData,  \* useFavorites: the favorites of the last render
  result,         \* what the last service call to return has returned
  serial          \* the number of ids id() has given to the services

serviceVars ==
  <<inFlight, customers, favorites, favoritesData, result, serial>>

checkoutVars ==
  <<addresses, selectedAddress, checkoutLoading, po, checkoutAlert, db,
    nextOrder, issued, serviceVars>>

vars == <<cartVars, checkoutVars>>

\* AsyncStorage.getItem resolves to null when nothing is stored.
Null == [null |-> TRUE]
NotRead == [notRead |-> TRUE]

\* ---------------------------------------------------------------- helpers
\* Math.round(x * 100) / 100 on an amount in 1/100000: Math.round rounds
\* half up (towards +infinity), which is floor(x + 0.5).
Round2(x) == ((x + (Cent \div 2)) \div Cent) * Cent

\* Faulty variant of the filter: the comparison inverted, which keeps the
\* line that was to go and drops the others.
FilterOut_Inverted(prev, itemId) ==
  SelectSeq(prev, LAMBDA item : item.id = itemId)

\* prev.filter(item => item.id !== itemId)
FilterOut(prev, itemId) == SelectSeq(prev, LAMBDA item : item.id # itemId)

\* Faulty variant of the lookup: the variant id is not compared.
FindIndex_ProductOnly(prev, productId, itemId) ==
  LET hits == {i \in 1 .. Len(prev) : prev[i].productId = productId}
  IN IF hits = {} THEN 0 ELSE CHOOSE i \in hits : \A j \in hits : i <= j

\* prev.find(item => item.productId === p && item.itemId === v): its index,
\* 0 when there is none.
FindIndex(prev, productId, itemId) ==
  LET hits == {i \in 1 .. Len(prev) :
                 prev[i].productId = productId /\ prev[i].itemId = itemId}
  IN IF hits = {} THEN 0 ELSE CHOOSE i \in hits : \A j \in hits : i <= j

\* Faulty variant of the validation: the title is not checked.
InvalidItem_NoTitleCheck(newItem) ==
  \/ newItem.productId = ""
  \/ newItem.price < 0
  \/ newItem.quantity <= 0

\* Faulty variant of the validation: a quantity of 0 is let through.
InvalidItem_AllowsZero(newItem) ==
  \/ newItem.productId = ""
  \/ newItem.title = ""
  \/ newItem.price < 0
  \/ newItem.quantity < 0

\* The validation at the head of addItem; "" is falsy.
InvalidItem(newItem) ==
  \/ newItem.productId = ""
  \/ newItem.title = ""
  \/ newItem.price < 0
  \/ newItem.quantity <= 0

\* The updater addItem hands to setItems.
\* Faulty variant of the addItem updater: the list of the render the callback
\* was created in is used instead of the list handed to the updater, as
\* setItems([...items, cartItem]) would.
AddItemUpdater_FromClosure(prev, newItem, id) ==
  LET k == FindIndex(items, newItem.productId, newItem.itemId) IN
  IF k # 0
  THEN [i \in 1 .. Len(items) |->
          IF items[i].id = items[k].id
          THEN [items[i] EXCEPT
                  !.quantity = items[i].quantity + newItem.quantity,
                  !.total = Round2(items[i].price
                                     * (items[i].quantity + newItem.quantity))]
          ELSE items[i]]
  ELSE Append(items,
              [id |-> id, productId |-> newItem.productId,
               itemId |-> newItem.itemId, title |-> newItem.title,
               price |-> newItem.price, quantity |-> newItem.quantity,
               total |-> Round2(newItem.price * newItem.quantity)])

AddItemUpdater(prev, newItem, id) ==
  LET k == FindIndex(prev, newItem.productId, newItem.itemId) IN
  IF k # 0
  THEN [i \in 1 .. Len(prev) |->
          IF prev[i].id = prev[k].id
          THEN [prev[i] EXCEPT
                  !.quantity = prev[i].quantity + newItem.quantity,
                  !.total = Round2(prev[i].price
                                     * (prev[i].quantity + newItem.quantity))]
          ELSE prev[i]]
  ELSE Append(prev,
              [id |-> id, productId |-> newItem.productId,
               itemId |-> newItem.itemId, title |-> newItem.title,
               price |-> newItem.price, quantity |-> newItem.quantity,
               total |-> Round2(newItem.price * newItem.quantity)])

\* Faulty variant of the updater: the quantity is set and the total is left
\* as it was.
UpdateQuantityUpdater_StaleTotal(prev, itemId, quantity) ==
  [i \in 1 .. Len(prev) |->
     IF prev[i].id = itemId
     THEN [prev[i] EXCEPT !.quantity = quantity]
     ELSE prev[i]]

\* The updater updateQuantity hands to setItems for a positive quantity.
UpdateQuantityUpdater(prev, itemId, quantity) ==
  [i \in 1 .. Len(prev) |->
     IF prev[i].id = itemId
     THEN [prev[i] EXCEPT !.quantity = quantity,
                          !.total = Round2(prev[i].price * quantity)]
     ELSE prev[i]]

\* rate.toString() and parseFloat(taxRateData): a text holding the number.
RateToString(rate) == [text |-> rate]
ParseFloat(taxRateData) == taxRateData.text

\* JSON.stringify(items) and JSON.parse(cartData): a document holding the
\* lines; a field that is undefined is left out and read back as undefined.
Stringify(lines) == [json |-> lines]
Parse(cartData) == cartData.json

\* Faulty variant of the save effect: saveCart is called while the cart is
\* still loading.
SaveCart_NoLoadingGuard(loading, lines, stored) == Stringify(lines)

\* The save effect of CartProvider, which runs after the render that
\* follows a change of items or isLoading: the value under the cart key once
\* saveCart has written the rendered list (nothing is written while the
\* cart is loading).
SaveCart(loading, lines, stored) ==
  IF loading THEN stored ELSE Stringify(lines)

Ids(lines) == {lines[i].id : i \in 1 .. Len(lines)}

\* A record of a call: the operation, the (productId, itemId) pair an
\* accepted addItem was given, whether the line id an updateQuantity or
\* removeItem was given named a line of the cart, the quantity given, and the
\* alert raised.
Call(name, pair, found, quantity, alert) ==
  [name |-> name, pair |-> pair, found |-> found, quantity |-> quantity,
   alert |-> alert]
Op(name, found, quantity, alert) ==
  Call(name, <<"", "">>, found, quantity, alert)

\* ---------------------------------------------------------------- checkout
\* What a caller may hand to addressService.createAddress: a complete
\* address, and the same with one of the required fields empty.
CompleteAddress ==
  [name |-> "Ann Lee", street |-> "1 Main St", city |-> "Salem",
   state |-> "OR", zipCode |-> "97301", isDefault |-> FALSE]
AddressInputs ==
  {CompleteAddress,
   [CompleteAddress EXCEPT !.street = ""],
   [CompleteAddress EXCEPT !.city = ""],
   [CompleteAddress EXCEPT !.state = ""],
   [CompleteAddress EXCEPT !.zipCode = ""]}

\* AddressForm.validateForm, on the fields modelled.
ValidateForm(formData) ==
  /\ formData.name # ""
  /\ formData.street # ""
  /\ formData.city # ""
  /\ formData.state # ""
  /\ formData.zipCode # ""

\* Faulty variant of the subtotal: a value kept from the time the cart held
\* its first line only.
SumTotal_FirstLine(lines) ==
  IF lines = <<>> THEN 0 ELSE Head(lines).total

\* items.reduce((sum, item) => sum + item.total, 0)
RECURSIVE SumTotal(_)
SumTotal(lines) ==
  IF lines = <<>> THEN 0 ELSE Head(lines).total + SumTotal(Tail(lines))

\* The totals memo of CartProvider; rate is in 1/1000.
Totals(lines, rate) ==
  LET subtotal == SumTotal(lines)
      tax == (subtotal * rate) \div 1000
      shipping == 0
      discount == 0
  IN [subtotal |-> subtotal, tax |-> tax, shipping |-> shipping,
      discount |-> discount, total |-> subtotal + tax + shipping - discount]

\* addresses.find(addr => addr.isDefault), else addresses[0]
DefaultOrFirst(addrs) ==
  LET defaults == {i \in 1 .. Len(addrs) : addrs[i].isDefault}
  IN IF defaults # {}
     THEN addrs[CHOOSE i \in defaults : \A j \in defaults : i <= j]
     ELSE addrs[1]

\* mappedShippingAddress of handlePlaceOrder (address1, province and zip
\* repeat street, state and zipCode).
\* Variant of the mapping that keeps a reference to the saved record
\* instead of its fields.
MappedShippingAddress_Reference(address) == [id |-> address.id]

MappedShippingAddress(address) ==
  [id |-> address.id, name |-> address.name, street |-> address.street,
   city |-> address.city, state |-> address.state,
   zipCode |-> address.zipCode]

\* orderData of handlePlaceOrder.
\* user?.email of the signed-in user, and the emails of other customers.
UserEmail == "ann@example.com"
Emails == {UserEmail, "bob@example.com", "cy@example.com"}

OrderData(totals, address) ==
  [customerEmail |-> UserEmail,
   status |-> "pending", fulfillmentStatus |-> "unfulfilled",
   paymentStatus |-> "pending", subtotal |-> totals.subtotal,
   taxAmount |-> totals.tax, shippingAmount |-> totals.shipping,
   discountAmount |-> totals.discount, total |-> totals.total,
   shippingAddress |-> MappedShippingAddress(address),
   billingAddress |-> MappedShippingAddress(address)]

\* Faulty variant of the record: the unit price is written as the line
\* total.
OrderItem_UnitPriceAsTotal(item) ==
  [productId |-> item.productId, itemId |-> item.itemId,
   title |-> item.title, quantity |-> item.quantity, price |-> item.price,
   lineTotal |-> item.price, taxRate |-> 80,
   taxAmount |-> (item.total * 80) \div 1000]

\* The record handlePlaceOrder writes for one cart line (taxRate 0.08).
\* Variant of the record that taxes the line at the rate of the cart.
OrderItem_CartRate(item) ==
  [productId |-> item.productId, itemId |-> item.itemId,
   title |-> item.title, quantity |-> item.quantity, price |-> item.price,
   lineTotal |-> item.total, taxRate |-> taxRate,
   taxAmount |-> (item.total * taxRate) \div 1000]

OrderItem(item) ==
  [productId |-> item.productId, itemId |-> item.itemId,
   title |-> item.title, quantity |-> item.quantity, price |-> item.price,
   lineTotal |-> item.total, taxRate |-> 80,
   taxAmount |-> (item.total * 80) \div 1000]

\* orderItemIds: a fresh id() per cart line.
OrderItemId(orderId, index) == <<orderId, index>>

\* Faulty variant of the list: the links are written by a later call, so
\* this transaction carries the header and the records only.
OrderTransaction_NoLinks(orderId, orderData, cartItems) ==
  <<[op |-> "update", ns |-> "orders", id |-> orderId, data |-> orderData]>>
    \o [i \in 1 .. Len(cartItems) |->
          [op |-> "update", ns |-> "orderitems",
           id |-> OrderItemId(orderId, i), data |-> OrderItem(cartItems[i])]]

\* The list handlePlaceOrder hands to db.transact: the header, one record
\* per cart line, and one link per record.
OrderTransaction(orderId, orderData, cartItems) ==
  <<[op |-> "update", ns |-> "orders", id |-> orderId, data |-> orderData]>>
    \o [i \in 1 .. Len(cartItems) |->
          [op |-> "update", ns |-> "orderitems",
           id |-> OrderItemId(orderId, i), data |-> OrderItem(cartItems[i])]]
    \o [i \in 1 .. Len(cartItems) |->
          [op |-> "link", ns |-> "orders", id |-> orderId,
           data |-> OrderItemId(orderId, i)]]

\* One step of a transaction on the document store.
ApplyOp(store, op) ==
  IF op.op = "update"
  THEN [store EXCEPT ![op.ns] = (op.id :> op.data) @@ @]
  ELSE [store EXCEPT !.links = @ \cup {<<op.id, op.data>>}]

\* db.transact(steps) when it succeeds: every step is applied.
RECURSIVE Transact(_, _)
Transact(store, steps) ==
  IF steps = <<>> THEN store
  ELSE Transact(ApplyOp(store, Head(steps)), Tail(steps))

\* No service call in flight, nothing returned yet, no customer and no
\* favorite in the store, no id given.
NoResult == [call |-> "none"]
InitServices ==
  /\ inFlight = <<>>
  /\ customers = {}
  /\ favorites = {}
  /\ favoritesData = {}
  /\ result = NoResult
  /\ serial = 0

Idle == [pc |-> "idle"]

InitCheckoutScreen ==
  /\ addresses = <<>>
  /\ selectedAddress = Null
  /\ checkoutLoading = FALSE
  /\ po = Idle
  /\ checkoutAlert = "none"
  /\ db = [orders |-> <<>>, orderitems |-> <<>>, links |-> {}]
  /\ nextOrder = 1
  /\ issued = <<>>
  /\ InitServices

\* Nothing stored under the tax rate key, no updater waiting for a render,
\* no storage call in flight, no storage failure reported.
InitEffects ==
  /\ taxRateStorage = Null
  /\ queue = <<>>
  /\ pending = <<>>
  /\ saveLog = "none"

\* ------------------------------------------------------------- cart store
Init ==
  /\ items = <<>>
  /\ taxRate = 100
  /\ isLoading = TRUE
  /\ storage \in
       {Null,
        Stringify(<<[id |-> 1, productId |-> "p1", itemId |-> Undefined,
                     title |-> "Ring", price |-> 112500, quantity |-> 2,
                     total |-> 225000]>>)}
  /\ loadRead = NotRead
  /\ nextId = IF storage = Null THEN 1 ELSE 2
  /\ lastOp = Op("none", FALSE, 0, "none")
  /\ InitEffects
  /\ InitCheckoutScreen

\* loadCart up to its await: AsyncStorage.getItem(CART_STORAGE_KEY).
LoadCartRead ==
  /\ isLoading
  /\ loadRead = NotRead
  /\ loadRead' = [cartData |-> storage, taxRateData |-> taxRateStorage]
  /\ UNCHANGED <<items, taxRate, isLoading, storage, nextId, lastOp>>
  /\ UNCHANGED effectVars
  /\ UNCHANGED checkoutVars

\* loadCart after its await: setItems(parsedItems) when a cart was stored,
\* setIsLoading(false) in the finally block, and the save effect of the
\* render that follows.
LoadCartDone ==
  /\ isLoading
  /\ loadRead # NotRead
  /\ items' = IF loadRead.cartData # Null
              THEN Parse(loadRead.cartData)
              ELSE items
  /\ taxRate' = IF loadRead.taxRateData # Null
                THEN ParseFloat(loadRead.taxRateData)
                ELSE taxRate
  /\ isLoading' = FALSE
  /\ storage' = SaveCart(FALSE, items', storage)
  /\ UNCHANGED <<loadRead, nextId, lastOp>>
  /\ UNCHANGED effectVars
  /\ UNCHANGED checkoutVars

AddItem(newItem) ==
  /\ IF InvalidItem(newItem)
     THEN /\ lastOp' = Op("addItem", FALSE, newItem.quantity,
                          "Failed to add item to cart")
          /\ UNCHANGED <<items, storage, nextId>>
     ELSE LET k == FindIndex(items, newItem.productId, newItem.itemId) IN
          /\ k = 0 => nextId <= MaxIds
          /\ k # 0 => items[k].quantity + newItem.quantity <= MaxQty
          /\ items' = AddItemUpdater(items, newItem, nextId)
          /\ nextId' = IF k = 0 THEN nextId + 1 ELSE nextId
          /\ storage' = SaveCart(isLoading, items', storage)
          /\ lastOp' = Call("addItem", <<newItem.productId, newItem.itemId>>,
                            FALSE, newItem.quantity, "none")
  /\ UNCHANGED <<taxRate, isLoading, loadRead>>
  /\ UNCHANGED effectVars
  /\ UNCHANGED checkoutVars

UpdateQuantity(itemId, quantity) ==
  /\ IF quantity < 0
     THEN /\ lastOp' = Op("updateQuantity", itemId \in Ids(items), quantity,
                          "Failed to update item quantity")
          /\ UNCHANGED <<items, storage>>
     ELSE /\ items' = IF quantity = 0
                      THEN FilterOut(items, itemId)
                      ELSE UpdateQuantityUpdater(items, itemId, quantity)
          /\ storage' = SaveCart(isLoading, items', storage)
          /\ lastOp' = Op("updateQuantity", itemId \in Ids(items), quantity, "none")
  /\ UNCHANGED <<taxRate, isLoading, loadRead, nextId>>
  /\ UNCHANGED effectVars
  /\ UNCHANGED checkoutVars

\* Faulty variant of removeItem: the line is cut out by its index, as
\* prev.splice(prev.findIndex(...), 1) would, so that an id that names no
\* line (index -1) takes the last line away.
RemoveItem_SpliceByIndex(itemId) ==
  /\ items' = IF itemId \in Ids(items) \/ items = <<>>
              THEN FilterOut(items, itemId)
              ELSE SubSeq(items, 1, Len(items) - 1)
  /\ storage' = SaveCart(isLoading, items', storage)
  /\ lastOp' = Op("removeItem", itemId \in Ids(items), 0, "none")
  /\ UNCHANGED <<taxRate, isLoading, loadRead, nextId>>
  /\ UNCHANGED effectVars
  /\ UNCHANGED checkoutVars

RemoveItem(itemId) ==
  /\ items' = FilterOut(items, itemId)
  /\ storage' = SaveCart(isLoading, items', storage)
  /\ lastOp' = Op("removeItem", itemId \in Ids(items), 0, "none")
  /\ UNCHANGED <<taxRate, isLoading, loadRead, nextId>>
  /\ UNCHANGED effectVars
  /\ UNCHANGED checkoutVars

\* clearCart: setItems([]) and then AsyncStorage.removeItem(CART_STORAGE_KEY),
\* which may fail (the catch raises the alert).  The save effect of the
\* render that follows writes the empty list; the two storage calls are not
\* ordered by the code, so either may be the last to land.
clearCart ==
  /\ items' = <<>>
  /\ \/ /\ storage' \in {Null, SaveCart(isLoading, items', Null)}
        /\ lastOp' = Op("clearCart", FALSE, 0, "none")
     \/ /\ storage' = SaveCart(isLoading, items', storage)
        /\ lastOp' = Op("clearCart", FALSE, 0, "Failed to clear cart")
  /\ UNCHANGED <<taxRate, isLoading, loadRead, nextId>>
  /\ UNCHANGED effectVars

ClearCart ==
  /\ clearCart
  /\ UNCHANGED checkoutVars

Next ==
  \/ LoadCartRead
  \/ LoadCartDone
  \/ \E newItem \in NewItems : AddItem(newItem)
  \/ \E itemId \in LineIds, quantity \in -1 .. MaxQty :
       UpdateQuantity(itemId, quantity)
  \/ \E itemId \in LineIds : RemoveItem(itemId)
  \/ ClearCart

Spec == Init /\ [][Next]_vars

\* ---------------------------------------------------------- checkout screen
\* The cart after loadCart has found nothing stored.
InitCheckout ==
  /\ items = <<>>
  /\ taxRate = 100
  /\ isLoading = FALSE
  /\ storage = Stringify(<<>>)
  /\ loadRead = [cartData |-> Null, taxRateData |-> Null]
  /\ nextId = 1
  /\ lastOp = Op("none", FALSE, 0, "none")
  /\ InitEffects
  /\ InitCheckoutScreen

\* What the product screens hand to addItem here.
CatalogItems ==
  {n \in ValidItems :
     /\ n.itemId = Undefined
     /\ \/ n.productId = "p1" /\ n.price = 112500 /\ n.quantity = 1
        \/ n.productId = "p2" /\ n.price = 250000 /\ n.quantity = 2}

\* addressService.createAddress: unsetDefaultAddresses when the new address
\* is the default, then the record is written as given.
createAddress(addressData) ==
  /\ Len(addresses) < MaxAddresses
  /\ addresses' =
       Append(IF addressData.isDefault
              THEN [i \in 1 .. Len(addresses) |->
                      [addresses[i] EXCEPT !.isDefault = FALSE]]
              ELSE addresses,
              [id |-> Len(addresses) + 1, name |-> addressData.name,
               street |-> addressData.street, city |-> addressData.city,
               state |-> addressData.state, zipCode |-> addressData.zipCode,
               isDefault |-> addressData.isDefault])
  /\ UNCHANGED <<cartVars, selectedAddress, checkoutLoading, po,
                 checkoutAlert, db, nextOrder, issued>>
  /\ UNCHANGED serviceVars

\* A caller of the exported service.
CreateAddress == \E addressData \in AddressInputs : createAddress(addressData)

\* AddressForm.handleSave: validateForm, then createAddress.
AddressFormSave ==
  \E formData \in AddressInputs :
    /\ ValidateForm(formData)
    /\ createAddress(formData)

\* The effect of CheckoutScreen that selects the default (or first) address
\* once there are addresses and none is selected.
AutoSelectAddress ==
  /\ Len(addresses) > 0
  /\ selectedAddress = Null
  /\ selectedAddress' = DefaultOrFirst(addresses)
  /\ UNCHANGED <<cartVars, addresses, checkoutLoading, po, checkoutAlert, db,
                 nextOrder, issued>>
  /\ UNCHANGED serviceVars

\* A guard of handlePlaceOrder that fails: the alert, and the return.
PlaceOrderReject(alert) ==
  /\ checkoutAlert' = alert
  /\ UNCHANGED <<checkoutLoading, po, issued>>

\* handlePlaceOrder past its guards, up to its first await:
\* setIsLoading(true) and the transaction handed to db.transact.  customer
\* is the customer state of the render (loaded or not).
PlaceOrderSubmit ==
  /\ nextOrder <= MaxOrders
  /\ checkoutLoading' = TRUE
  /\ \E customer \in BOOLEAN :
       po' = [pc |-> "transact", orderId |-> nextOrder,
              customer |-> customer,
              tx |-> OrderTransaction(
                       nextOrder,
                       OrderData(Totals(items, taxRate), selectedAddress),
                       items)]
  /\ issued' = (nextOrder :> [cartItems |-> items, taxRate |-> taxRate,
                              selectedAddress |-> selectedAddress])
                 @@ issued
  /\ UNCHANGED checkoutAlert

\* Faulty variant of the call: the empty-cart guard is missing.
PlaceOrderBegin_NoEmptyCartGuard ==
  /\ po.pc = "idle"
  /\ IF selectedAddress = Null
     THEN PlaceOrderReject("Address Required")
     ELSE PlaceOrderSubmit
  /\ UNCHANGED <<cartVars, addresses, selectedAddress, db, nextOrder>>
  /\ UNCHANGED serviceVars

\* Faulty variant of the call: the address guard is missing, so that
\* selectedAddress.id throws inside the try block and the catch block raises
\* the generic alert.
PlaceOrderBegin_NoAddressGuard ==
  /\ po.pc = "idle"
  /\ IF Len(items) = 0
     THEN PlaceOrderReject("Empty Cart")
     ELSE IF selectedAddress = Null
     THEN PlaceOrderReject("Error")
     ELSE PlaceOrderSubmit
  /\ UNCHANGED <<cartVars, addresses, selectedAddress, db, nextOrder>>
  /\ UNCHANGED serviceVars

\* A call of handlePlaceOrder up to its first await: the two guards, then
\* the submission.
PlaceOrderBegin ==
  /\ po.pc = "idle"
  /\ IF Len(items) = 0
     THEN PlaceOrderReject("Empty Cart")
     ELSE IF selectedAddress = Null
     THEN PlaceOrderReject("Address Required")
     ELSE PlaceOrderSubmit
  /\ UNCHANGED <<cartVars, addresses, selectedAddress, db, nextOrder>>
  /\ UNCHANGED serviceVars

\* db.transact resolves: the whole transaction is in the store.
PlaceOrderTransactOk ==
  /\ po.pc = "transact"
  /\ db' = Transact(db, po.tx)
  /\ po' = [po EXCEPT !.pc = IF po.customer THEN "stats" ELSE "clear"]
  /\ nextOrder' = nextOrder + 1
  /\ UNCHANGED <<cartVars, addresses, selectedAddress, checkoutLoading,
                 checkoutAlert, issued>>
  /\ UNCHANGED serviceVars

\* Faulty variant of the rejection: the cart is emptied on the way out, as
\* if clearCart stood in the finally block.
PlaceOrderTransactFails_ClearsCart ==
  /\ po.pc = "transact"
  /\ clearCart
  /\ checkoutAlert' = "Error"
  /\ checkoutLoading' = FALSE
  /\ po' = Idle
  /\ issued' = [o \in DOMAIN issued \ {po.orderId} |-> issued[o]]
  /\ UNCHANGED <<addresses, selectedAddress, db, nextOrder>>
  /\ UNCHANGED serviceVars

\* db.transact rejects: nothing is in the store; the catch block raises the
\* alert and the finally block resets isLoading.
PlaceOrderTransactFails ==
  /\ po.pc = "transact"
  /\ checkoutAlert' = "Error"
  /\ checkoutLoading' = FALSE
  /\ po' = Idle
  /\ issued' = [o \in DOMAIN issued \ {po.orderId} |-> issued[o]]
  /\ UNCHANGED <<cartVars, addresses, selectedAddress, db, nextOrder>>
  /\ UNCHANGED serviceVars

\* userCustomerService.updateCustomerOrderStats: it catches its own errors
\* and touches only the customers collection.
PlaceOrderStats ==
  /\ po.pc = "stats"
  /\ po' = [po EXCEPT !.pc = "clear"]
  /\ UNCHANGED <<cartVars, addresses, selectedAddress, checkoutLoading,
                 checkoutAlert, db, nextOrder, issued>>
  /\ UNCHANGED serviceVars

\* await clearCart(), the success alert and the finally block.
PlaceOrderClear ==
  /\ po.pc = "clear"
  /\ clearCart
  /\ checkoutAlert' = "Order Placed!"
  /\ checkoutLoading' = FALSE
  /\ po' = Idle
  /\ UNCHANGED <<addresses, selectedAddress, db, nextOrder, issued>>
  /\ UNCHANGED serviceVars

NextCheckout ==
  \/ \E newItem \in CatalogItems : AddItem(newItem)
  \/ CreateAddress
  \/ AddressFormSave
  \/ AutoSelectAddress
  \/ PlaceOrderBegin
  \/ PlaceOrderTransactOk
  \/ PlaceOrderTransactFails
  \/ PlaceOrderStats
  \/ PlaceOrderClear

SpecCheckout == InitCheckout /\ [][NextCheckout]_vars

\* ----------------------------------------------------------------- totals
\* The rates a caller may hand to setTaxRate: none, the rate of the order
\* lines, the default, and a negative one (the code checks nothing).
RateInputs == {0, 80, 100, -2000}

\* setTaxRate: setTaxRateState(rate), then
\* AsyncStorage.setItem(TAX_RATE_STORAGE_KEY, rate.toString()), whose failure
\* is logged and otherwise ignored.
SetTaxRate(rate) ==
  /\ taxRate' = rate
  /\ taxRateStorage' \in {RateToString(rate), taxRateStorage}
  /\ UNCHANGED <<items, isLoading, storage, loadRead, nextId, lastOp, queue,
                 pending, saveLog>>
  /\ UNCHANGED checkoutVars

\* The provider as it mounts, with or without a cart and a tax rate stored
\* by an earlier session.
InitTotals ==
  /\ items = <<>>
  /\ taxRate = 100
  /\ isLoading = TRUE
  /\ storage \in
       {Null,
        Stringify(<<[id |-> 1, productId |-> "p1", itemId |-> Undefined,
                     title |-> "Ring", price |-> 112500, quantity |-> 1,
                     total |-> 113000]>>)}
  /\ taxRateStorage \in {Null, RateToString(80)}
  /\ loadRead = NotRead
  /\ nextId = IF storage = Null THEN 1 ELSE 2
  /\ lastOp = Op("none", FALSE, 0, "none")
  /\ queue = <<>>
  /\ pending = <<>>
  /\ saveLog = "none"
  /\ InitCheckoutScreen

NextTotals ==
  \/ LoadCartRead
  \/ LoadCartDone
  \/ \E newItem \in CatalogItems : AddItem(newItem)
  \/ \E itemId \in LineIds, quantity \in 1 .. MaxQty :
       UpdateQuantity(itemId, quantity)
  \/ \E itemId \in LineIds : RemoveItem(itemId)
  \/ \E rate \in RateInputs : SetTaxRate(rate)

SpecTotals == InitTotals /\ [][NextTotals]_vars

\* ------------------------------------------------------ place-order button
\* Faulty variant of the button: disabled={!selectedAddress}.
ButtonDisabled_AddressOnly == selectedAddress = Null

\* disabled={isLoading || !selectedAddress}
ButtonDisabled == checkoutLoading \/ selectedAddress = Null

\* A press of the Place Order button.  A disabled button calls nothing; an
\* enabled one calls handlePlaceOrder, which runs to its first await, and
\* setIsLoading(true) is rendered before the next press is handled.
PressPlaceOrder ==
  IF ButtonDisabled
  THEN /\ lastOp' = Op("pressDisabled", FALSE, 0, "none")
       /\ UNCHANGED <<items, taxRate, isLoading, storage, loadRead, nextId,
                      effectVars>>
       /\ UNCHANGED checkoutVars
  ELSE /\ IF Len(items) = 0
          THEN PlaceOrderReject("Empty Cart")
          ELSE IF selectedAddress = Null
          THEN PlaceOrderReject("Address Required")
          ELSE PlaceOrderSubmit
       /\ UNCHANGED <<cartVars, addresses, selectedAddress, db, nextOrder>>
       /\ UNCHANGED serviceVars

NextPress ==
  \/ \E newItem \in CatalogItems : AddItem(newItem)
  \/ AddressFormSave
  \/ AutoSelectAddress
  \/ PressPlaceOrder
  \/ PlaceOrderTransactOk
  \/ PlaceOrderTransactFails
  \/ PlaceOrderStats
  \/ PlaceOrderClear

SpecPress == InitCheckout /\ [][NextPress]_vars

\* ---------------------------------------------------------------- order tax
\* The checkout screen over a cart that loadCart has found empty, with or
\* without the rate 0.08 stored by an earlier session.
InitOrderTax ==
  /\ items = <<>>
  /\ taxRateStorage \in {Null, RateToString(80)}
  /\ taxRate = IF taxRateStorage = Null THEN 100
               ELSE ParseFloat(taxRateStorage)
  /\ isLoading = FALSE
  /\ storage = Stringify(<<>>)
  /\ loadRead = [cartData |-> Null, taxRateData |-> taxRateStorage]
  /\ nextId = 1
  /\ lastOp = Op("none", FALSE, 0, "none")
  /\ queue = <<>>
  /\ pending = <<>>
  /\ saveLog = "none"
  /\ InitCheckoutScreen

NextOrderTax ==
  \/ \E newItem \in CatalogItems : AddItem(newItem)
  \/ AddressFormSave
  \/ AutoSelectAddress
  \/ PlaceOrderBegin
  \/ PlaceOrderTransactOk
  \/ PlaceOrderTransactFails
  \/ PlaceOrderStats
  \/ PlaceOrderClear

SpecOrderTax == InitOrderTax /\ [][NextOrderTax]_vars

\* ---------------------------------------------------------- storage calls
\* How many storage calls on the cart key may be in flight at once.
MaxPending == 2

\* The storage calls the cart makes, none of them awaited by the render that
\* issues it: AsyncStorage.setItem(CART_STORAGE_KEY, JSON.stringify(items))
\* of saveCart and AsyncStorage.removeItem(CART_STORAGE_KEY) of clearCart.
\* newest marks the call issued last.
SetItemCall(lines) ==
  [op |-> "setItem", value |-> Stringify(lines), newest |-> TRUE]
RemoveItemCall == [op |-> "removeItem", value |-> Null, newest |-> TRUE]

Older(calls) ==
  [i \in 1 .. Len(calls) |-> [calls[i] EXCEPT !.newest = FALSE]]

Without(calls, i) == SubSeq(calls, 1, i - 1) \o SubSeq(calls, i + 1, Len(calls))

\* Faulty variant of the save effect: only the line that changed last is
\* written, as a delta.
IssueSave_Delta(calls, lines) ==
  Append(Older(calls),
         SetItemCall(IF lines = <<>> THEN lines
                     ELSE <<lines[Len(lines)]>>))

\* The save effect after a render with isLoading false: saveCart is called
\* with the rendered list and its setItem is in flight.
IssueSave(calls, lines) == Append(Older(calls), SetItemCall(lines))

\* addItem with a valid item, the save effect running after the render.
AddItemAsync(newItem) ==
  LET k == FindIndex(items, newItem.productId, newItem.itemId) IN
  /\ ~InvalidItem(newItem)
  /\ Len(pending) < MaxPending
  /\ k = 0 => nextId <= MaxIds
  /\ k # 0 => items[k].quantity + newItem.quantity <= MaxQty
  /\ items' = AddItemUpdater(items, newItem, nextId)
  /\ nextId' = IF k = 0 THEN nextId + 1 ELSE nextId
  /\ pending' = IssueSave(pending, items')
  /\ lastOp' = Op("addItem", FALSE, 0, "none")
  /\ UNCHANGED <<taxRate, isLoading, storage, loadRead, taxRateStorage, queue,
                 saveLog>>
  /\ UNCHANGED checkoutVars

\* updateQuantity with a positive quantity.
UpdateQuantityAsync(itemId, quantity) ==
  /\ quantity > 0
  /\ Len(pending) < MaxPending
  /\ items' = UpdateQuantityUpdater(items, itemId, quantity)
  /\ pending' = IssueSave(pending, items')
  /\ lastOp' = Op("updateQuantity", FALSE, 0, "none")
  /\ UNCHANGED <<taxRate, isLoading, storage, loadRead, nextId,
                 taxRateStorage, queue, saveLog>>
  /\ UNCHANGED checkoutVars

\* clearCart: setItems([]), then AsyncStorage.removeItem is called; the
\* render that follows runs the save effect, which writes the empty list.
ClearCartAsync ==
  /\ Len(pending) + 2 <= MaxPending
  /\ items' = <<>>
  /\ pending' = IssueSave(Append(Older(pending), RemoveItemCall), items')
  /\ lastOp' = Op("clearCart", FALSE, 0, "none")
  /\ UNCHANGED <<taxRate, isLoading, storage, loadRead, nextId,
                 taxRateStorage, queue, saveLog>>
  /\ UNCHANGED checkoutVars

\* A storage call resolves: the key holds what the call wrote.  The code
\* orders the calls in no way, so any call in flight may be the one.
WriteLands(i) ==
  /\ i \in 1 .. Len(pending)
  /\ storage' = IF pending[i].op = "removeItem" THEN Null
                ELSE pending[i].value
  /\ pending' = Without(pending, i)
  /\ UNCHANGED <<items, taxRate, isLoading, loadRead, nextId, lastOp,
                 taxRateStorage, queue, saveLog>>
  /\ UNCHANGED checkoutVars

\* A storage call rejects: the catch of saveCart logs the error, the catch
\* of clearCart logs it and raises the alert.  Nothing else is done.
WriteFails(i) ==
  /\ i \in 1 .. Len(pending)
  /\ saveLog' = IF pending[i].op = "removeItem" THEN "Failed to clear cart"
                ELSE "Failed to save cart to storage"
  /\ pending' = Without(pending, i)
  /\ UNCHANGED <<items, taxRate, isLoading, storage, loadRead, nextId, lastOp,
                 taxRateStorage, queue>>
  /\ UNCHANGED checkoutVars

\* The cart after loadCart has found nothing stored and the save effect has
\* written the empty list.
InitStorage ==
  /\ items = <<>>
  /\ taxRate = 100
  /\ isLoading = FALSE
  /\ storage = Stringify(<<>>)
  /\ loadRead = [cartData |-> Null, taxRateData |-> Null]
  /\ nextId = 1
  /\ lastOp = Op("none", FALSE, 0, "none")
  /\ InitEffects
  /\ InitCheckoutScreen

NextStorage ==
  \/ \E newItem \in CatalogItems : AddItemAsync(newItem)
  \/ \E itemId \in Ids(items) : UpdateQuantityAsync(itemId, MaxQty)
  \/ ClearCartAsync
  \/ \E i \in 1 .. MaxPending : WriteLands(i)
  \/ \E i \in 1 .. MaxPending : WriteFails(i)

SpecStorage == InitStorage /\ [][NextStorage]_vars

\* ------------------------------------------------------ batched updaters
\* How many setItems calls may wait for one render.
MaxQueue == 2

\* A setItems call waiting for the render: the updater of addItem, of
\* updateQuantity or of removeItem, or the list handed over by clearCart.
Updater(op, item, itemId, quantity) ==
  [op |-> op, item |-> item, itemId |-> itemId, quantity |-> quantity]

\* React calls the waiting updaters in the order of their setItems calls,
\* each with the list the one before it returned. nextId is the id
\* generateId gives to the next new line.
RECURSIVE ApplyQueue(_, _, _)
ApplyQueue(prev, updaters, id) ==
  IF updaters = <<>> THEN [lines |-> prev, nextId |-> id]
  ELSE LET u == Head(updaters) IN
       CASE u.op = "addItem" ->
              ApplyQueue(AddItemUpdater(prev, u.item, id), Tail(updaters),
                         IF FindIndex(prev, u.item.productId, u.item.itemId)
                              = 0
                         THEN id + 1 ELSE id)
         [] u.op = "updateQuantity" ->
              ApplyQueue(UpdateQuantityUpdater(prev, u.itemId, u.quantity),
                         Tail(updaters), id)
         [] u.op = "removeItem" ->
              ApplyQueue(FilterOut(prev, u.itemId), Tail(updaters), id)
         [] OTHER -> ApplyQueue(<<>>, Tail(updaters), id)

\* The calls taken here: those whose render leaves every quantity and the id
\* counter within the bounds.
Queueable(u) ==
  LET r == ApplyQueue(items, Append(queue, u), nextId) IN
  /\ Len(queue) < MaxQueue
  /\ r.nextId <= MaxIds + 1
  /\ \A i \in 1 .. Len(r.lines) : r.lines[i].quantity <= MaxQty

\* A cart operation called while earlier setItems calls still wait.
Enqueue(u, name) ==
  /\ Queueable(u)
  /\ queue' = Append(queue, u)
  /\ lastOp' = Op(name, FALSE, 0, "none")
  /\ UNCHANGED <<items, taxRate, isLoading, storage, loadRead, nextId,
                 taxRateStorage, pending, saveLog>>
  /\ UNCHANGED checkoutVars

\* addItem with a valid item: setItems(prev => ...).
AddItemCall(newItem) ==
  /\ ~InvalidItem(newItem)
  /\ Enqueue(Updater("addItem", newItem, 0, 0), "addItem")

\* updateQuantity: removeItem for quantity 0, else setItems(prev => ...).
UpdateQuantityCall(itemId, quantity) ==
  /\ quantity >= 0
  /\ Enqueue(IF quantity = 0 THEN Updater("removeItem", Null, itemId, 0)
             ELSE Updater("updateQuantity", Null, itemId, quantity),
             "updateQuantity")

\* clearCart: setItems([]).
ClearCartCall ==
  /\ Len(queue) < MaxQueue
  /\ Enqueue(Updater("clearCart", Null, 0, 0), "clearCart")

\* The render: the waiting updaters are applied in order, the result is the
\* list of the render and the save effect writes it.  lastOp records the
\* pair of the first call when it is an addItem, whether every call was an
\* addItem for that pair, and how many calls were applied.
Render ==
  LET r == ApplyQueue(items, queue, nextId) IN
  /\ queue # <<>>
  /\ items' = r.lines
  /\ nextId' = r.nextId
  /\ queue' = <<>>
  /\ storage' = SaveCart(isLoading, items', storage)
  /\ lastOp' =
       Call("render",
            IF queue[1].op = "addItem"
            THEN <<queue[1].item.productId, queue[1].item.itemId>>
            ELSE <<"", "">>,
            \A i \in 1 .. Len(queue) :
              /\ queue[i].op = "addItem"
              /\ queue[1].op = "addItem"
              /\ queue[i].item.productId = queue[1].item.productId
              /\ queue[i].item.itemId = queue[1].item.itemId,
            Len(queue), "none")
  /\ UNCHANGED <<taxRate, isLoading, loadRead, taxRateStorage, pending,
                 saveLog>>
  /\ UNCHANGED checkoutVars

NextBatch ==
  \/ \E newItem \in CatalogItems : AddItemCall(newItem)
  \/ \E itemId \in LineIds, quantity \in {0, 1, MaxQty} :
       UpdateQuantityCall(itemId, quantity)
  \/ ClearCartCall
  \/ Render

SpecBatch == InitStorage /\ [][NextBatch]_vars

\* ---------------------------------------------------------- address service
\* How many service calls may be in flight at once.
MaxCalls == 2

\* What the callers hand to updateAddress here: a new street, or isDefault.
AddressUpdates == {[street |-> "2 Oak Ave"], [isDefault |-> TRUE]}

AddressIds == {addresses[i].id : i \in 1 .. Len(addresses)}

\* db.tx.addresses[addressId].update(updateData) on the stored records.
UpdateRecords(records, ids, updates) ==
  [i \in 1 .. Len(records) |->
     IF records[i].id \in ids
     THEN [f \in DOMAIN records[i] |->
             IF f \in DOMAIN updates THEN updates[f] ELSE records[i][f]]
     ELSE records[i]]

\* A call of the address service waiting at an await: "query" is the
\* queryOnce by id, "unsetQuery" the queryOnce of unsetDefaultAddresses,
\* "unsetWrite" its db.transact over the addresses read, "write" the
\* db.transact of the call itself.
AddressCall(op, pc, addressId, data, read) ==
  [op |-> op, pc |-> pc, addressId |-> addressId, data |-> data,
   read |-> read]

Returned(op, addressId, success) ==
  [call |-> op, addressId |-> addressId, success |-> success]

CreatesInFlight ==
  Cardinality({i \in 1 .. Len(inFlight) : inFlight[i].op = "createAddress"})

AddressFrame ==
  /\ UNCHANGED <<cartVars, selectedAddress, checkoutLoading, po,
                 checkoutAlert, db, nextOrder, issued>>
  /\ UNCHANGED <<customers, favorites, favoritesData>>

StartAddressCall(call) ==
  /\ Len(inFlight) < MaxCalls
  /\ inFlight' = Append(inFlight, call)
  /\ UNCHANGED <<addresses, result, serial>>
  /\ AddressFrame

\* createAddress up to its first await.
StartCreateAddress(addressData) ==
  /\ serial + CreatesInFlight <= MaxAddresses
  /\ StartAddressCall(
       AddressCall("createAddress",
                   IF addressData.isDefault THEN "unsetQuery" ELSE "write",
                   0, addressData, {}))

\* updateAddress up to its first await.
StartUpdateAddress(addressId, updates) ==
  /\ addressId \in AddressIds
  /\ StartAddressCall(
       AddressCall("updateAddress",
                   IF "isDefault" \in DOMAIN updates /\ updates.isDefault
                   THEN "query" ELSE "write",
                   addressId, updates, {}))

\* setDefaultAddress up to its first await.
StartSetDefaultAddress(addressId) ==
  /\ addressId \in AddressIds
  /\ StartAddressCall(
       AddressCall("setDefaultAddress", "query", addressId,
                   [isDefault |-> TRUE], {}))

\* deleteAddress up to its await.
StartDeleteAddress(addressId) ==
  /\ addressId \in AddressIds
  /\ StartAddressCall(
       AddressCall("deleteAddress", "write", addressId, Null, {}))

\* The queryOnce by id resolves.  setDefaultAddress returns 'Address not
\* found' when there is no such record; updateAddress skips the unset.
AddressQuery(i) ==
  /\ i \in 1 .. Len(inFlight)
  /\ inFlight[i].pc = "query"
  /\ IF inFlight[i].addressId \in AddressIds
     THEN /\ inFlight' = [inFlight EXCEPT ![i].pc = "unsetQuery"]
          /\ UNCHANGED result
     ELSE IF inFlight[i].op = "setDefaultAddress"
     THEN /\ inFlight' = Without(inFlight, i)
          /\ result' = Returned(inFlight[i].op, inFlight[i].addressId, FALSE)
     ELSE /\ inFlight' = [inFlight EXCEPT ![i].pc = "write"]
          /\ UNCHANGED result
  /\ UNCHANGED <<addresses, serial>>
  /\ AddressFrame

\* unsetDefaultAddresses: its queryOnce resolves with the records that are
\* the default now; with none there is nothing to write.
UnsetQuery(i) ==
  /\ i \in 1 .. Len(inFlight)
  /\ inFlight[i].pc = "unsetQuery"
  /\ LET defaults == {addresses[k].id : k \in {j \in 1 .. Len(addresses) :
                                                 addresses[j].isDefault}}
     IN inFlight' = [inFlight EXCEPT
                       ![i].pc = IF defaults = {} THEN "write"
                                 ELSE "unsetWrite",
                       ![i].read = defaults]
  /\ UNCHANGED <<addresses, result, serial>>
  /\ AddressFrame

\* unsetDefaultAddresses: its db.transact resolves; the records read are
\* no longer the default.
UnsetWrite(i) ==
  /\ i \in 1 .. Len(inFlight)
  /\ inFlight[i].pc = "unsetWrite"
  /\ addresses' = UpdateRecords(addresses, inFlight[i].read,
                                [isDefault |-> FALSE])
  /\ inFlight' = [inFlight EXCEPT ![i].pc = "write"]
  /\ UNCHANGED <<result, serial>>
  /\ AddressFrame

\* The db.transact of the call itself resolves and the call returns
\* success: the new record is in the store (createAddress), the record is
\* gone (deleteAddress), or the record carries the updates (updateAddress,
\* setDefaultAddress).
AddressWrite(i) ==
  LET call == inFlight[i] IN
  /\ i \in 1 .. Len(inFlight)
  /\ call.pc = "write"
  /\ addresses' =
       CASE call.op = "createAddress" ->
              Append(addresses,
                     [id |-> serial + 1, name |-> call.data.name,
                      street |-> call.data.street, city |-> call.data.city,
                      state |-> call.data.state,
                      zipCode |-> call.data.zipCode,
                      isDefault |-> call.data.isDefault])
         [] call.op = "deleteAddress" ->
              SelectSeq(addresses, LAMBDA a : a.id # call.addressId)
         [] OTHER -> UpdateRecords(addresses, {call.addressId}, call.data)
  /\ serial' = IF call.op = "createAddress" THEN serial + 1 ELSE serial
  /\ inFlight' = Without(inFlight, i)
  /\ result' = Returned(call.op,
                        IF call.op = "createAddress" THEN serial + 1
                        ELSE call.addressId,
                        TRUE)
  /\ AddressFrame

\* An await of the call rejects: the catch block returns success: false and
\* what was written before stays written.
AddressCallFails(i) ==
  /\ i \in 1 .. Len(inFlight)
  /\ inFlight' = Without(inFlight, i)
  /\ result' = Returned(inFlight[i].op, inFlight[i].addressId, FALSE)
  /\ UNCHANGED <<addresses, serial>>
  /\ AddressFrame

\* The address book of one user, its calls overlapping.
NextAddress ==
  \/ \E isDefault \in BOOLEAN :
       StartCreateAddress([CompleteAddress EXCEPT !.isDefault = isDefault])
  \/ \E addressId \in AddressIds, updates \in AddressUpdates :
       StartUpdateAddress(addressId, updates)
  \/ \E addressId \in AddressIds : StartSetDefaultAddress(addressId)
  \/ \E i \in 1 .. MaxCalls : AddressQuery(i)
  \/ \E i \in 1 .. MaxCalls : UnsetQuery(i)
  \/ \E i \in 1 .. MaxCalls : UnsetWrite(i)
  \/ \E i \in 1 .. MaxCalls : AddressWrite(i)
  \/ \E i \in 1 .. MaxCalls : AddressCallFails(i)

SpecAddress == InitCheckout /\ [][NextAddress]_vars

\* The checkout screen and the address book: one saved address, one service
\* call at a time, and a cart of one line.
NextSnapshot ==
  \/ /\ items = <<>>
     /\ \E newItem \in CatalogItems : AddItem(newItem)
  \/ /\ inFlight = <<>>
     /\ \/ serial = 0 /\ StartCreateAddress(CompleteAddress)
        \/ \E addressId \in AddressIds, updates \in AddressUpdates :
             StartUpdateAddress(addressId, updates)
        \/ \E addressId \in AddressIds : StartSetDefaultAddress(addressId)
        \/ \E addressId \in AddressIds : StartDeleteAddress(addressId)
  \/ AddressQuery(1)
  \/ UnsetQuery(1)
  \/ UnsetWrite(1)
  \/ AddressWrite(1)
  \/ AddressCallFails(1)
  \/ AutoSelectAddress
  \/ PlaceOrderBegin
  \/ PlaceOrderTransactOk
  \/ PlaceOrderTransactFails
  \/ PlaceOrderStats
  \/ PlaceOrderClear

SpecSnapshot == InitCheckout /\ [][NextSnapshot]_vars

\* ------------------------------------------------------------ order history
\* Faulty variant of the query: where { id: orderId }.
FindOrders_ByIdOnly(store, userEmail, orderId) ==
  {o \in DOMAIN store.orders : o = orderId}

\* queryOnce({ orders: { $: { where: { id: orderId, customerEmail:
\* userEmail } } } })
FindOrders(store, userEmail, orderId) ==
  {o \in DOMAIN store.orders :
     o = orderId /\ store.orders[o].customerEmail = userEmail}

\* An order of some customer is written to the store by a checkout, here or
\* in another session.
OrderStored(email) ==
  /\ nextOrder <= MaxOrders + 1
  /\ db' = [db EXCEPT
              !.orders = (nextOrder :>
                            [OrderData(Totals(<<>>, taxRate), CompleteAddress
                                         @@ [id |-> 1])
                               EXCEPT !.customerEmail = email]) @@ @]
  /\ nextOrder' = nextOrder + 1
  /\ UNCHANGED <<cartVars, addresses, selectedAddress, checkoutLoading, po,
                 checkoutAlert, issued, serviceVars>>

\* getUserOrder: the query resolves and the first order found is returned,
\* or 'Order not found or access denied' when there is none.
GetUserOrder(userEmail, orderId) ==
  LET orders == FindOrders(db, userEmail, orderId) IN
  /\ result' =
       IF orders = {}
       THEN [call |-> "getUserOrder", userEmail |-> userEmail,
             orderId |-> orderId, success |-> FALSE,
             error |-> "Order not found or access denied"]
       ELSE LET o == CHOOSE o \in orders : TRUE IN
            [call |-> "getUserOrder", userEmail |-> userEmail,
             orderId |-> orderId, success |-> TRUE,
             order |-> [id |-> o,
                        customerEmail |-> db.orders[o].customerEmail]]
  /\ UNCHANGED <<cartVars, addresses, selectedAddress, checkoutLoading, po,
                 checkoutAlert, db, nextOrder, issued>>
  /\ UNCHANGED <<inFlight, customers, favorites, favoritesData, serial>>

\* getUserOrder: the query rejects and the catch block returns the error.
GetUserOrderFails(userEmail, orderId) ==
  /\ result' = [call |-> "getUserOrder", userEmail |-> userEmail,
                orderId |-> orderId, success |-> FALSE,
                error |-> "Failed to fetch order"]
  /\ UNCHANGED <<cartVars, addresses, selectedAddress, checkoutLoading, po,
                 checkoutAlert, db, nextOrder, issued>>
  /\ UNCHANGED <<inFlight, customers, favorites, favoritesData, serial>>

NextOrderHistory ==
  \/ \E email \in Emails : OrderStored(email)
  \/ \E userEmail \in Emails, orderId \in 1 .. MaxOrders + 2 :
       GetUserOrder(userEmail, orderId)
  \/ \E userEmail \in Emails, orderId \in 1 .. MaxOrders + 2 :
       GetUserOrderFails(userEmail, orderId)

SpecOrderHistory == InitCheckout /\ [][NextOrderHistory]_vars

\* --------------------------------------------------------- customer service
MaxCustomers == 3

\* The users that sign in: two with an email, one without.
NoEmail == ""
Users == {[email |-> UserEmail], [email |-> "bob@example.com"],
          [email |-> NoEmail]}

CustomersByEmail(email) == {c \in customers : c.email = email}

CustomerCall(pc, email) ==
  [op |-> "findOrCreateCustomerForUser", pc |-> pc, email |-> email]

CustomerResult(email, success, customer) ==
  [call |-> "findOrCreateCustomerForUser", email |-> email,
   success |-> success, customer |-> customer]

CustomerFrame ==
  /\ UNCHANGED <<cartVars, addresses, selectedAddress, checkoutLoading, po,
                 checkoutAlert, db, nextOrder, issued>>
  /\ UNCHANGED <<favorites, favoritesData>>

\* findOrCreateCustomerForUser up to its first await: a user without an
\* email is turned away, nothing read or written.
FindOrCreateCustomerForUser(user) ==
  /\ Len(inFlight) < MaxCalls
  /\ serial + Len(inFlight) < MaxCustomers
  /\ IF user.email = NoEmail
     THEN /\ result' = CustomerResult(NoEmail, FALSE, Null)
          /\ UNCHANGED inFlight
     ELSE /\ inFlight' = Append(inFlight, CustomerCall("find", user.email))
          /\ UNCHANGED result
  /\ UNCHANGED <<customers, serial>>
  /\ CustomerFrame

\* findCustomerByEmail resolves: the customer found is returned, or the call
\* goes on to create one.
FindCustomerByEmail(i) ==
  /\ i \in 1 .. Len(inFlight)
  /\ inFlight[i].pc = "find"
  /\ IF CustomersByEmail(inFlight[i].email) # {}
     THEN /\ \E c \in CustomersByEmail(inFlight[i].email) :
               result' = CustomerResult(inFlight[i].email, TRUE, c)
          /\ inFlight' = Without(inFlight, i)
     ELSE /\ inFlight' = [inFlight EXCEPT ![i].pc = "create"]
          /\ UNCHANGED result
  /\ UNCHANGED <<customers, serial>>
  /\ CustomerFrame

\* findCustomerByEmail: the query rejects, the catch block returns null and
\* the call goes on to create a customer.
FindCustomerByEmailFails(i) ==
  /\ i \in 1 .. Len(inFlight)
  /\ inFlight[i].pc = "find"
  /\ inFlight' = [inFlight EXCEPT ![i].pc = "create"]
  /\ UNCHANGED <<customers, serial, result>>
  /\ CustomerFrame

\* customerId = id(); transact(customers[customerId].update(customerData)).
CreateCustomer(i) ==
  /\ i \in 1 .. Len(inFlight)
  /\ inFlight[i].pc = "create"
  /\ LET newCustomer == [id |-> serial + 1, email |-> inFlight[i].email,
                         totalOrders |-> 0, totalSpent |-> 0] IN
       /\ customers' = customers \cup {newCustomer}
       /\ result' = CustomerResult(inFlight[i].email, TRUE, newCustomer)
  /\ serial' = serial + 1
  /\ inFlight' = Without(inFlight, i)
  /\ CustomerFrame

\* The transaction rejects: the call returns success: false.
CreateCustomerFails(i) ==
  /\ i \in 1 .. Len(inFlight)
  /\ inFlight[i].pc = "create"
  /\ result' = CustomerResult(inFlight[i].email, FALSE, Null)
  /\ inFlight' = Without(inFlight, i)
  /\ UNCHANGED <<customers, serial>>
  /\ CustomerFrame

NextCustomer ==
  \/ \E user \in Users : FindOrCreateCustomerForUser(user)
  \/ \E i \in 1 .. MaxCalls : FindCustomerByEmail(i)
  \/ \E i \in 1 .. MaxCalls : FindCustomerByEmailFails(i)
  \/ \E i \in 1 .. MaxCalls : CreateCustomer(i)
  \/ \E i \in 1 .. MaxCalls : CreateCustomerFails(i)

SpecCustomer == InitCheckout /\ [][NextCustomer]_vars

\* ---------------------------------------------------------------- favorites
MaxFavorites == 3

\* user.id of the signed-in user; NoUser when nobody is signed in.
UserId == "u1"
NoUser == ""
AuthUsers == {UserId, NoUser}

\* favorites of the render the handlers were created in: the last result
\* the reactive query delivered.
ExistingFavorites(productId) ==
  {fav \in favoritesData : fav.productId = productId}

\* isFavorited(productId), read from the same render.
IsFavorited(productId) == ExistingFavorites(productId) # {}

FavoriteResult(call, productId, alert) ==
  [call |-> call, productId |-> productId, alert |-> alert]

FavoriteFrame ==
  /\ UNCHANGED <<cartVars, addresses, selectedAddress, checkoutLoading, po,
                 checkoutAlert, db, nextOrder, issued>>
  /\ UNCHANGED <<inFlight, customers>>

\* db.tx.favorites[id()].update({ productId, userId, createdAt })
CreateFavorite(user, productId) ==
  /\ serial < MaxFavorites
  /\ favorites' = favorites \cup
                    {[id |-> serial + 1, productId |-> productId,
                      userId |-> user]}
  /\ serial' = serial + 1

\* db.tx.favorites[existingFavorite.id].delete(); favorites.find returns
\* the first match of the rendered list.
DeleteFavorite(productId) ==
  /\ \E existingFavorite \in ExistingFavorites(productId) :
       favorites' = favorites \ {existingFavorite}
  /\ UNCHANGED serial

ToggleFavorite(user, productId) ==
  /\ IF user = NoUser
     THEN /\ result' = FavoriteResult("toggleFavorite", productId,
                                      "Sign In Required")
          /\ UNCHANGED <<favorites, serial>>
     ELSE /\ IF IsFavorited(productId)
             THEN DeleteFavorite(productId)
             ELSE CreateFavorite(user, productId)
          /\ result' = FavoriteResult("toggleFavorite", productId, "none")
  /\ UNCHANGED favoritesData
  /\ FavoriteFrame

AddToFavorites(user, productId) ==
  /\ IF user = NoUser
     THEN /\ result' = FavoriteResult("addToFavorites", productId,
                                      "Sign In Required")
          /\ UNCHANGED <<favorites, serial>>
     ELSE /\ IF IsFavorited(productId)
             THEN UNCHANGED <<favorites, serial>>
             ELSE CreateFavorite(user, productId)
          /\ result' = FavoriteResult("addToFavorites", productId, "none")
  /\ UNCHANGED favoritesData
  /\ FavoriteFrame

RemoveFromFavorites(user, productId) ==
  /\ IF user = NoUser \/ ~IsFavorited(productId)
     THEN UNCHANGED <<favorites, serial>>
     ELSE DeleteFavorite(productId)
  /\ result' = FavoriteResult("removeFromFavorites", productId, "none")
  /\ UNCHANGED favoritesData
  /\ FavoriteFrame

\* db.transact rejects in one of the three handlers: the catch block raises
\* its alert and the store is as it was.
FavoriteTransactFails(call, productId, alert) ==
  /\ call = "addToFavorites" => ~IsFavorited(productId)
  /\ call = "removeFromFavorites" => IsFavorited(productId)
  /\ result' = FavoriteResult(call, productId, alert)
  /\ UNCHANGED <<favorites, favoritesData, serial>>
  /\ FavoriteFrame

\* The reactive query delivers the favorites of the user and the hook
\* renders again.
FavoritesQueryDelivers ==
  /\ favoritesData # {fav \in favorites : fav.userId = UserId}
  /\ favoritesData' = {fav \in favorites : fav.userId = UserId}
  /\ UNCHANGED <<favorites, serial, result>>
  /\ FavoriteFrame

NextFavorites ==
  \/ \E user \in AuthUsers, productId \in ProductIds :
       ToggleFavorite(user, productId)
  \/ \E user \in AuthUsers, productId \in ProductIds :
       AddToFavorites(user, productId)
  \/ \E user \in AuthUsers, productId \in ProductIds :
       RemoveFromFavorites(user, productId)
  \/ \E productId \in ProductIds :
       \/ FavoriteTransactFails("toggleFavorite", productId,
                                "Failed to update favorites")
       \/ FavoriteTransactFails("addToFavorites", productId,
                                "Failed to add to favorites")
       \/ FavoriteTransactFails("removeFromFavorites", productId,
                                "Failed to remove from favorites")
  \/ FavoritesQueryDelivers

SpecFavorites == InitCheckout /\ [][NextFavorites]_vars

\* ------------------------------------------------------------- properties
Matching(lines, productId, itemId) ==
  {i \in 1 .. Len(lines) :
     lines[i].productId = productId /\ lines[i].itemId = itemId}

QuantityOf(lines, productId, itemId) ==
  IF Matching(lines, productId, itemId) = {} THEN 0
  ELSE lines[CHOOSE i \in Matching(lines, productId, itemId) : TRUE].quantity

NoDuplicatePair ==
  \A i, j \in 1 .. Len(items) :
    (items[i].productId = items[j].productId
       /\ items[i].itemId = items[j].itemId) => i = j

\* C1: the cart never holds two lines with the same (productId, itemId), and
\* every successful addItem leaves exactly one line for its pair, whose
\* quantity is the quantity the pair had before (0 if it had no line) plus
\* the requested one and whose total is round2(price x quantity); so a run of
\* addItem calls for one pair ends with one line carrying the summed
\* quantity.
C1_MergeInvariant ==
  /\ []NoDuplicatePair
  /\ [][(/\ lastOp'.name = "addItem"
         /\ lastOp'.alert = "none"
         /\ isLoading' = isLoading
         /\ items' # items) =>
          LET hit == Matching(items', lastOp'.pair[1], lastOp'.pair[2]) IN
          /\ Cardinality(hit) = 1
          /\ \A i \in hit :
               /\ items'[i].quantity
                    = QuantityOf(items, lastOp'.pair[1], lastOp'.pair[2])
                        + lastOp'.quantity
               /\ items'[i].total
                    = Round2(items'[i].price * items'[i].quantity)]_vars

\* Two lines in the cart, one of them merged up to quantity 3 by addItem.
C1_Witness ==
  /\ lastOp.name = "addItem"
  /\ lastOp.alert = "none"
  /\ Len(items) = 2
  /\ \E i \in 1 .. Len(items) : items[i].quantity = 3

PositiveQuantities == \A i \in 1 .. Len(items) : items[i].quantity >= 1

C10_StaleLineReference ==
  [][(lastOp'.name = "updateQuantity" /\ lastOp'.quantity > 0) =>
       \A itemId \in LineIds :
         (UpdateQuantity(itemId, lastOp'.quantity)
            /\ itemId \notin Ids(items))
           => /\ items' = items
              /\ lastOp'.alert # "none"]_vars

\* updateQuantity(id, q > 0) was called with the id of a removed line while
\* another line was in the cart, and no alert was raised.
C10_Witness ==
  /\ lastOp.name = "updateQuantity"
  /\ lastOp.quantity > 0
  /\ lastOp.alert = "none"
  /\ ~lastOp.found
  /\ nextId > 1
  /\ Len(items) >= 1

\* C11: removeItem(id) takes the line with that id out of the cart and
\* leaves every other line as it was, in order; with an id that names no
\* line (a second call with the same id included) it leaves the cart as it
\* was; in both cases it raises no alert.
C11_IdempotentRemoval ==
  [][lastOp'.name = "removeItem" =>
       \A itemId \in LineIds :
         RemoveItem(itemId) =>
           /\ itemId \notin Ids(items')
           /\ items' = SelectSeq(items, LAMBDA item : item.id # itemId)
           /\ itemId \notin Ids(items) => items' = items
           /\ lastOp'.alert = "none"]_vars

\* removeItem was called with the id of a line that is no longer in the
\* cart, while another line was, and no alert was raised.
C11_Witness ==
  /\ lastOp.name = "removeItem"
  /\ ~lastOp.found
  /\ lastOp.alert = "none"
  /\ nextId > 1
  /\ Len(items) >= 1

\* C12: addItem with a quantity <= 0, an empty productId, an empty title or
\* a negative price fails with the alert "Failed to add item to cart" and
\* leaves the cart lines, the stored cart and the id generator as they were.
C12_AddItemValidation ==
  [][lastOp'.name = "addItem" =>
       \A n \in SpoiledItems :
         (lastOp'.quantity = n.quantity /\ AddItem(n)) =>
           /\ items' = items
           /\ storage' = storage
           /\ nextId' = nextId
           /\ lastOp'.alert = "Failed to add item to cart"]_vars

\* addItem has refused an item of quantity 1 (so for its productId, title
\* or price) with two lines in the cart.
C12_Witness ==
  /\ lastOp.name = "addItem"
  /\ lastOp.quantity = 1
  /\ lastOp.alert = "Failed to add item to cart"
  /\ Len(items) = 2

\* C13: in every state of the cart, every line's total is round2 of its own
\* price times its own quantity.
C13_DerivedLineTotal ==
  \A i \in 1 .. Len(items) :
    items[i].total = Round2(items[i].price * items[i].quantity)

\* updateQuantity has set a line whose price is not a whole number of cents
\* to a quantity of 3, so that its total is a rounded one.
C13_Witness ==
  /\ lastOp.name = "updateQuantity"
  /\ lastOp.found
  /\ lastOp.quantity = 3
  /\ \E i \in 1 .. Len(items) :
       /\ items[i].quantity = 3
       /\ items[i].price * 3 # items[i].total

\* -------------------------------------------------- checkout properties
ItemsOf(orderId) ==
  {id \in DOMAIN db.orderitems : <<orderId, id>> \in db.links}

\* C2: the header of an order, one record per cart line and the link of
\* each record are in the store together or not at all: the store never
\* holds a header without all of its line items, nor a line item or a link
\* without its header, and nothing of an order whose transaction is still in
\* flight.
C2_OrderAtomicity ==
  /\ \A o \in DOMAIN db.orders :
       /\ o \in DOMAIN issued
       /\ \A i \in 1 .. Len(issued[o].cartItems) :
            OrderItemId(o, i) \in ItemsOf(o)
  /\ \A id \in DOMAIN db.orderitems :
       \E o \in DOMAIN db.orders : id \in ItemsOf(o)
  /\ \A l \in db.links :
       l[1] \in DOMAIN db.orders /\ l[2] \in DOMAIN db.orderitems
  /\ po.pc = "transact" =>
       /\ po.orderId \notin DOMAIN db.orders
       /\ \A id \in DOMAIN db.orderitems : id[1] # po.orderId

\* An order of two cart lines is in the store.
C2_Witness ==
  \E o \in DOMAIN db.orders :
    Len(issued[o].cartItems) = 2 /\ Cardinality(ItemsOf(o)) = 2

OrderMatchesCart(o) ==
  LET cart == issued[o].cartItems
      header == db.orders[o]
      totals == Totals(cart, issued[o].taxRate)
  IN /\ header.status = "pending"
     /\ Cardinality(ItemsOf(o)) = Len(cart)
     /\ \A i \in 1 .. Len(cart) :
          /\ OrderItemId(o, i) \in ItemsOf(o)
          /\ db.orderitems[OrderItemId(o, i)].title = cart[i].title
          /\ db.orderitems[OrderItemId(o, i)].quantity = cart[i].quantity
          /\ db.orderitems[OrderItemId(o, i)].price = cart[i].price
          /\ db.orderitems[OrderItemId(o, i)].lineTotal = cart[i].total
     /\ header.subtotal = totals.subtotal
     /\ header.taxAmount = totals.tax
     /\ header.shippingAmount = totals.shipping
     /\ header.discountAmount = totals.discount
     /\ header.total = totals.total

\* C3: an order in the store has status "pending", exactly one line item
\* per line of the cart handlePlaceOrder was called with, each with that
\* line's title, quantity, unit price and line total, and the subtotal, tax,
\* shipping, discount and total of that cart; the step at which db.transact
\* resolves puts the order in the store, and the call ends with the cart
\* empty and the success alert.
C3_SuccessfulCheckout ==
  /\ [](\A o \in DOMAIN db.orders : OrderMatchesCart(o))
  /\ [][/\ (po.pc = "transact" /\ po'.pc \in {"stats", "clear"}) =>
             /\ po.orderId \notin DOMAIN db.orders
             /\ po.orderId \in DOMAIN db'.orders
        /\ (po.pc = "clear" /\ po'.pc = "idle") =>
             /\ items' = <<>>
             /\ checkoutAlert' = "Order Placed!"
             /\ po.orderId \in DOMAIN db'.orders]_vars

\* A call has ended with the success alert: the order of two lines is in
\* the store and the cart is empty.
C3_Witness ==
  /\ po.pc = "idle"
  /\ checkoutAlert = "Order Placed!"
  /\ items = <<>>
  /\ \E o \in DOMAIN db.orders : Cardinality(ItemsOf(o)) = 2

FailureAlerts == {"Empty Cart", "Address Required", "Error"}

\* C4: a call of handlePlaceOrder that fails, at a guard or because
\* db.transact rejects, ends with an alert that names the failure and leaves
\* the cart lines and the cart key of the storage as they were and the store
\* without the order: no header and no line item of it.
C4_FailedCheckoutPreservesCart ==
  [][(/\ po'.pc = "idle"
      /\ checkoutAlert' \in FailureAlerts
      /\ \/ po.pc = "transact"
         \/ po.pc = "idle" /\ checkoutAlert' # checkoutAlert) =>
       /\ items' = items
       /\ storage' = storage
       /\ db' = db
       /\ po.pc = "transact" =>
            /\ po.orderId \notin DOMAIN db'.orders
            /\ \A id \in DOMAIN db'.orderitems : id[1] # po.orderId]_vars

\* db.transact has rejected an order of a cart of two lines: the alert is
\* up, the two lines are in the cart and the store holds no order.
C4_Witness ==
  /\ po.pc = "idle"
  /\ checkoutAlert = "Error"
  /\ Len(items) = 2
  /\ DOMAIN db.orders = {}

\* C5: a call of handlePlaceOrder with an empty cart raises the "Empty Cart"
\* alert and hands nothing to the store: no transaction is in flight after
\* it, the store and the cart are as they were, and no transaction is ever
\* issued for a cart without lines.
C5_EmptyCartRejected ==
  /\ [](\A o \in DOMAIN issued : Len(issued[o].cartItems) > 0)
  /\ [][(/\ po.pc = "idle"
         /\ Len(items) = 0
         /\ <<checkoutAlert, po>>' # <<checkoutAlert, po>>) =>
          /\ checkoutAlert' = "Empty Cart"
          /\ po' = po
          /\ issued' = issued
          /\ db' = db
          /\ items' = items]_vars

\* The alert is up for an empty cart although an address is selected.
C5_Witness ==
  /\ checkoutAlert = "Empty Cart"
  /\ po.pc = "idle"
  /\ items = <<>>
  /\ selectedAddress # Null
  /\ DOMAIN issued = {}

\* C6: a call of handlePlaceOrder with lines in the cart and no address
\* selected raises the "Address Required" alert and hands nothing to the
\* store: no transaction is in flight after it, the store and the cart are
\* as they were, and no transaction is ever issued without an address.
C6_MissingAddressRejected ==
  /\ [](\A o \in DOMAIN issued : issued[o].selectedAddress # Null)
  /\ [][(/\ po.pc = "idle"
         /\ Len(items) > 0
         /\ selectedAddress = Null
         /\ <<checkoutAlert, po>>' # <<checkoutAlert, po>>) =>
          /\ checkoutAlert' = "Address Required"
          /\ po' = po
          /\ issued' = issued
          /\ db' = db
          /\ items' = items]_vars

\* The alert is up for a cart of two lines with no address selected.
C6_Witness ==
  /\ checkoutAlert = "Address Required"
  /\ po.pc = "idle"
  /\ Len(items) = 2
  /\ selectedAddress = Null
  /\ DOMAIN issued = {}

\* C7: no order reaches the store with a shipping address whose street,
\* city, state or postal code is empty: handlePlaceOrder refuses such an
\* address.
C7_AddressValidatedAtCheckout ==
  \A o \in DOMAIN db.orders :
    /\ db.orders[o].shippingAddress.street # ""
    /\ db.orders[o].shippingAddress.city # ""
    /\ db.orders[o].shippingAddress.state # ""
    /\ db.orders[o].shippingAddress.zipCode # ""

\* An order is in the store whose shipping address has no street.
C7_Witness ==
  \E o \in DOMAIN db.orders : db.orders[o].shippingAddress.street = ""

\* ------------------------------------------------------ totals properties
\* C14: for every cart and tax rate, the subtotal of the totals is the sum of
\* the line totals, the tax is round2(subtotal x taxRate), the total is
\* round2(subtotal + tax + shipping - discount), and for the empty cart
\* subtotal, tax and total are 0.
C14_TotalsComputation ==
  LET totals == Totals(items, taxRate) IN
  /\ totals.subtotal = SumTotal(items)
  /\ totals.tax = Round2((totals.subtotal * taxRate) \div 1000)
  /\ totals.total
       = Round2(totals.subtotal + totals.tax + totals.shipping
                  - totals.discount)
  /\ items = <<>> =>
       totals.subtotal = 0 /\ totals.tax = 0 /\ totals.total = 0

\* The cart holds lines and its tax is not a whole number of cents.
C14_Witness ==
  /\ ~isLoading
  /\ Len(items) >= 1
  /\ Totals(items, taxRate).tax # Round2(Totals(items, taxRate).tax)

\* C15: in every state, whatever rate setTaxRate has installed, the total of
\* the cart is not negative.
C15_NonNegativeGrandTotal == Totals(items, taxRate).total >= 0

\* setTaxRate has installed a negative rate and the total of a cart with
\* lines is below 0.
C15_Witness ==
  /\ ~isLoading
  /\ taxRate < 0
  /\ Len(items) >= 1
  /\ Totals(items, taxRate).total < 0

\* ----------------------------------------------------- storage properties
Settled == pending = <<>>

\* C16: once every storage call that was issued has resolved, the value under
\* the cart key is the serialization of the whole current list of lines,
\* also when the calls overlapped.
C16_WriteThroughPersistence ==
  (Settled /\ saveLog = "none" /\ lastOp.name # "clearCart")
    => storage = Stringify(items)

\* No call failed, none is in flight, the cart holds two lines and the key
\* holds an older list.
C16_Witness ==
  /\ Settled
  /\ saveLog = "none"
  /\ Len(items) = 2
  /\ storage # Null
  /\ Len(Parse(storage)) = 1

C18_ClearErasesSnapshot ==
  lastOp.name = "clearCart" =>
    /\ items = <<>>
    /\ (Settled /\ saveLog = "none") => storage = Null

\* clearCart has run, both its calls have resolved and the key holds the
\* serialization of the empty list.
C18_Witness ==
  /\ lastOp.name = "clearCart"
  /\ Settled
  /\ saveLog = "none"
  /\ items = <<>>
  /\ storage = Stringify(<<>>)

\* ------------------------------------------------------- batch properties
RECURSIVE Requested(_, _, _)
Requested(updaters, productId, itemId) ==
  IF updaters = <<>> THEN 0
  ELSE (IF /\ Head(updaters).item.productId = productId
           /\ Head(updaters).item.itemId = itemId
        THEN Head(updaters).item.quantity ELSE 0)
       + Requested(Tail(updaters), productId, itemId)

AddsOnly(updaters) ==
  \A i \in 1 .. Len(updaters) : updaters[i].op = "addItem"

\* C19: the calls waiting for a render take effect in the order they were
\* made, each on the result of the one before.  After a render of addItem
\* calls only, every pair has at most one line, whose quantity is the
\* quantity before plus every quantity requested for the pair (so two
\* addItem calls for one pair give one line with the sum); an updateQuantity
\* followed by an addItem for the same line gives the set quantity plus the
\* added one, and the two in the other order give the set quantity.
C19_SerializedMutations ==
  [][(queue # <<>> /\ queue' = <<>>) =>
       /\ \A i, j \in 1 .. Len(items') :
            (items'[i].productId = items'[j].productId
               /\ items'[i].itemId = items'[j].itemId) => i = j
       /\ AddsOnly(queue) =>
            \A p \in ProductIds, v \in ItemIds :
              QuantityOf(items', p, v)
                = QuantityOf(items, p, v) + Requested(queue, p, v)
       /\ \A a, b \in 1 .. Len(queue), k \in 1 .. Len(items) :
            (/\ Len(queue) = 2
             /\ a # b
             /\ queue[a].op = "updateQuantity"
             /\ queue[a].itemId = items[k].id
             /\ queue[b].op = "addItem"
             /\ queue[b].item.productId = items[k].productId
             /\ queue[b].item.itemId = items[k].itemId)
            => QuantityOf(items', items[k].productId, items[k].itemId)
                 = IF a < b
                   THEN queue[a].quantity + queue[b].item.quantity
                   ELSE queue[a].quantity]_vars

\* Two addItem calls for one pair were made before the render, and the cart
\* holds one line with the sum of the two quantities.
C19_Witness ==
  /\ lastOp.name = "render"
  /\ lastOp.found
  /\ lastOp.quantity = 2
  /\ Len(items) = 1
  /\ items[1].productId = lastOp.pair[1]
  /\ items[1].quantity = 2

\* ----------------------------------------------------- order properties
RECURSIVE SumLineTotal(_)
SumLineTotal(ids) ==
  IF ids = {} THEN 0
  ELSE LET id == CHOOSE x \in ids : TRUE
       IN db.orderitems[id].lineTotal + SumLineTotal(ids \ {id})

\* C20: the subtotal stored on an order is the sum of the line totals of the
\* line items linked to it, and its tax and total are computed from that
\* subtotal with the rate of the click, whatever happens to the cart before
\* or after.
C20_TotalsAtAssembly ==
  \A o \in DOMAIN db.orders :
    LET header == db.orders[o] IN
    /\ header.subtotal = SumLineTotal(ItemsOf(o))
    /\ header.taxAmount = (header.subtotal * issued[o].taxRate) \div 1000
    /\ header.total
         = header.subtotal + header.taxAmount + header.shippingAmount
             - header.discountAmount

\* An order of two line items is in the store and the cart has since been
\* given another list of lines.
C20_Witness ==
  \E o \in DOMAIN db.orders :
    /\ Cardinality(ItemsOf(o)) = 2
    /\ items # <<>>
    /\ items # issued[o].cartItems
    /\ db.orders[o].subtotal = SumTotal(issued[o].cartItems)

RECURSIVE SumTaxAmount(_)
SumTaxAmount(ids) ==
  IF ids = {} THEN 0
  ELSE LET id == CHOOSE x \in ids : TRUE
       IN db.orderitems[id].taxAmount + SumTaxAmount(ids \ {id})

\* C23: every line item of an order carries the rate 0.08 and a tax of 0.08
\* times its line total, whatever rate the cart has; so for an order with a
\* subtotal other than 0 the taxes of the line items add up to the tax of
\* the order exactly when the rate of the cart was 0.08.
C23_PerLineTax ==
  \A o \in DOMAIN db.orders :
    /\ \A id \in ItemsOf(o) :
         /\ db.orderitems[id].taxRate = 80
         /\ db.orderitems[id].taxAmount * 1000
              = db.orderitems[id].lineTotal * 80
    /\ db.orders[o].subtotal # 0 =>
         (SumTaxAmount(ItemsOf(o)) = db.orders[o].taxAmount
            <=> issued[o].taxRate = 80)

\* An order of two line items placed under the rate 0.08 is in the store,
\* and the taxes of its line items add up to its tax.
C23_Witness ==
  \E o \in DOMAIN db.orders :
    /\ issued[o].taxRate = 80
    /\ Cardinality(ItemsOf(o)) = 2
    /\ db.orders[o].taxAmount # 0
    /\ SumTaxAmount(ItemsOf(o)) = db.orders[o].taxAmount

\* ----------------------------------------------------- address properties
Defaults == {i \in 1 .. Len(addresses) : addresses[i].isDefault}

\* C29: at most one address of the user is the default, whatever calls of
\* createAddress, updateAddress and setDefaultAddress overlap or fail; and
\* when setDefaultAddress(a) returns success, a is the one default.
C29_SingleDefaultAddress ==
  /\ Cardinality(Defaults) <= 1
  /\ (result.call = "setDefaultAddress" /\ result.success /\ inFlight = <<>>)
       => \A i \in 1 .. Len(addresses) :
            addresses[i].isDefault <=> addresses[i].id = result.addressId

\* Every call has returned and two addresses are the default.
C29_Witness ==
  /\ inFlight = <<>>
  /\ Cardinality(Defaults) = 2

\* ---------------------------------------------------- snapshot properties
\* C22: the shippingAddress and the billingAddress of an order in the store
\* hold the fields the selected address had when the order was placed, and
\* no call of updateAddress, setDefaultAddress, deleteAddress or
\* createAddress changes an order that is in the store.
C22_AddressSnapshot ==
  /\ [](\A o \in DOMAIN db.orders :
          LET a == issued[o].selectedAddress
              copy == [id |-> a.id, name |-> a.name, street |-> a.street,
                       city |-> a.city, state |-> a.state,
                       zipCode |-> a.zipCode]
          IN /\ db.orders[o].shippingAddress = copy
             /\ db.orders[o].billingAddress = copy)
  /\ [][\A o \in DOMAIN db.orders :
          o \in DOMAIN db'.orders /\ db'.orders[o] = db.orders[o]]_vars

\* An order is in the store, and the saved address it was placed with has
\* since been given another street or been deleted.
C22_Witness ==
  \E o \in DOMAIN db.orders :
    /\ db.orders[o].shippingAddress.street = "1 Main St"
    /\ \A i \in 1 .. Len(addresses) :
         addresses[i].id = db.orders[o].shippingAddress.id
           => addresses[i].street = "2 Oak Ave"
    /\ result.call \in {"updateAddress", "deleteAddress"}
    /\ result.success

\* ----------------------------------------------- order history properties
\* C24: getUserOrder(email, orderId) returns success: false with an error
\* whenever no order in the store has that id and that customerEmail, and
\* an order it returns with success: true has that id and that
\* customerEmail.
C24_OrderLookupScoped ==
  [][(result' # result /\ result'.call = "getUserOrder") =>
       /\ (~\E o \in DOMAIN db.orders :
              /\ o = result'.orderId
              /\ db.orders[o].customerEmail = result'.userEmail)
            => (~result'.success /\ result'.error # "")
       /\ result'.success =>
            /\ result'.order.id = result'.orderId
            /\ result'.order.customerEmail = result'.userEmail]_vars

\* The order asked for is in the store under another email, and the call
\* has returned 'Order not found or access denied'.
C24_Witness ==
  /\ result.call = "getUserOrder"
  /\ ~result.success
  /\ result.error = "Order not found or access denied"
  /\ result.orderId \in DOMAIN db.orders
  /\ db.orders[result.orderId].customerEmail # result.userEmail

\* ---------------------------------------------------- customer properties
\* C25: findOrCreateCustomerForUser returns success with a customer whose
\* email is the user's, and after any sequence or interleaving of calls for
\* one email the store holds exactly one customer with that email; a user
\* without an email is refused and nothing is written.
C25_FindOrCreateCustomer ==
  /\ \A email \in Emails : Cardinality(CustomersByEmail(email)) <= 1
  /\ (result.call = "findOrCreateCustomerForUser" /\ result.success) =>
       /\ result.customer.email = result.email
       /\ Cardinality(CustomersByEmail(result.email)) = 1

\* A call has found the customer an earlier call created and returned it.
C25_Witness ==
  /\ result.call = "findOrCreateCustomerForUser"
  /\ result.success
  /\ result.customer \in customers
  /\ result.customer.id < serial
  /\ result.customer.email = result.email

C27_NoLostMutation ==
  [][(isLoading /\ ~isLoading') =>
       \A i \in 1 .. Len(items) :
         /\ \E j \in 1 .. Len(items') : items'[j].id = items[i].id
         /\ storage' # Null
         /\ \E j \in 1 .. Len(Parse(storage')) :
              Parse(storage')[j].id = items[i].id]_vars

\* The load has completed with the stored cart and the line the last addItem
\* added is not in the cart.
C27_Witness ==
  /\ ~isLoading
  /\ lastOp.name = "addItem"
  /\ lastOp.alert = "none"
  /\ FindIndex(items, lastOp.pair[1], lastOp.pair[2]) = 0

\* ---------------------------------------------------- checkout properties
\* C28: every line the clear after a successful order write removes from
\* the cart is a line item of that order, with the quantity and total the
\* cart line has: a line added or changed while placeOrder was in flight is
\* not discarded without being ordered.
C28_NoLineDropped ==
  [][(po.pc = "clear" /\ po'.pc = "idle") =>
       \A i \in 1 .. Len(items) :
         \E id \in DOMAIN db.orderitems :
           /\ <<po.orderId, id>> \in db.links
           /\ db.orderitems[id].productId = items[i].productId
           /\ db.orderitems[id].itemId = items[i].itemId
           /\ db.orderitems[id].quantity = items[i].quantity
           /\ db.orderitems[id].lineTotal = items[i].total]_vars

\* The order is written and the cart, about to be cleared, holds a line
\* that is not among the lines of the order.
C28_Witness ==
  /\ po.pc = "clear"
  /\ po.orderId \in DOMAIN db.orders
  /\ \E i \in 1 .. Len(items) :
       \A j \in 1 .. Len(issued[po.orderId].cartItems) :
         issued[po.orderId].cartItems[j].id # items[i].id

\* --------------------------------------------------- favorites properties
\* C30: after any sequence or interleaving of toggleFavorite, addToFavorites
\* and removeFromFavorites by the signed-in user, the store holds at most
\* one favorite per (userId, productId), also when two calls for one
\* product are made before the reactive query has delivered the result of
\* the first.
C30_UniqueFavorite ==
  \A productId \in ProductIds :
    Cardinality({fav \in favorites :
                   fav.userId = UserId /\ fav.productId = productId}) <= 1

\* Two calls for one product were made before the query delivered: the
\* store holds two favorites of that product and the hook has seen none.
C30_Witness ==
  \E productId \in ProductIds :
    /\ ~IsFavorited(productId)
    /\ Cardinality({fav \in favorites : fav.productId = productId}) = 2
    /\ result.productId = productId

====
